---- MODULE Spec2Model ----
(***************************************************************************)
(* Signal-chain derived-quantity engine of qcodes_contrib_drivers.         *)
(*                                                                         *)
(* The repository holds two SignalChain classes:                           *)
(*   "drivers" : src/qcodes_contrib_drivers/drivers/virtual/signal_chain.py*)
(*   "virtual" : src/qcodes_contrib_drivers/virtual/signal_chain.py        *)
(* The variable engine says which of the two classes was constructed; the  *)
(* operators prefixed drv_ and virt_ are the methods of the first and of   *)
(* the second class.                                                       *)
(*                                                                         *)
(* Numbers.  Python floats are modelled by exact arithmetic: node values   *)
(* are integers in fixed units and a quotient is an exact rational         *)
(* [n, d] in lowest terms with d > 0 (floating-point rounding is not       *)
(* modelled).  Units:                                                      *)
(*   current I_target          5e-7 A     (1e-6 A is 2)                    *)
(*   transconductance gm       1e-3 A/V   (so a level is in 5e-4 V)        *)
(*   preamp gain               100 V/V                                     *)
(*   R_est                     1e4 Ohm                                     *)
(*   V_preamp_out_pred, range  0.5 V      (1.0 V is 2)                     *)
(*   frequency                 500 Hz     (1000 Hz is 2)                   *)
(*   X, Y, R readouts          1 V        (so V_sample is in 0.01 V and    *)
(*                                         I_meas in 1e-6 A)               *)
(***************************************************************************)
EXTENDS Integers, Sequences, FiniteSets, TLC

VARIABLES engine, gm_a_per_v, vi_invert, excitation_v_ac, output_on,
          preamp_gain, preamp_invert, R_est, input_range, range_ok, call,
          has_src_frequency, src_frequency, lockin_frequency,
          has_XY, has_R, X, Y, R, margin, amplitude_convention,
          pc, local, events, trigger_sent, wire

vars == <<engine, gm_a_per_v, vi_invert, excitation_v_ac, output_on,
          preamp_gain, preamp_invert, R_est, input_range, range_ok, call,
          has_src_frequency, src_frequency, lockin_frequency,
          has_XY, has_R, X, Y, R, margin, amplitude_convention,
          pc, local, events, trigger_sent, wire>>

nodeVars == <<engine, gm_a_per_v, vi_invert, excitation_v_ac, output_on,
              preamp_gain, preamp_invert, R_est, input_range, range_ok>>

\* the frequency pair, the demodulator readouts and the advisory settings
freqVars == <<has_src_frequency, src_frequency, lockin_frequency>>

readVars == <<has_XY, has_R, X, Y, R>>

advVars == <<margin, amplitude_convention>>

\* a call in progress: the statements still to run, the call's locals and
\* what it has done so far
procVars == <<pc, local, events>>

\* the Keithley 2182A driver's flag and the commands it has written
k2182Vars == <<trigger_sent, wire>>

auxVars == <<freqVars, readVars, advVars, procVars, k2182Vars>>

----------------------------------------------------------------------------
(* Bounds of the model *)

MaxI == 2

MaxGm == 1

MaxGain == 1

MaxREst == 2

Engines == {"drivers", "virtual"}

\* I_target values
ITargets == -MaxI .. MaxI

\* the input ranges the lock-in is switched between: 1.0 V and 2.5 V
InputRanges == {2, 5}

----------------------------------------------------------------------------
(* Optional values: Python None or a value *)

None == [some |-> FALSE, v |-> 0]

Some(x) == [some |-> TRUE, v |-> x]

----------------------------------------------------------------------------
(* Exact rational arithmetic standing for float arithmetic *)

Abs(x) == IF x < 0 THEN -x ELSE x

RECURSIVE GCD(_, _)
GCD(a, b) == IF b = 0 THEN a ELSE GCD(b, a % b)

\* n / d for d # 0, in lowest terms with a positive denominator
RatDiv(n, d) ==
    LET g == GCD(Abs(n), Abs(d))
        s == IF d < 0 THEN -1 ELSE 1
    IN  [n |-> (s * n) \div g, d |-> Abs(d) \div g]

RatOfInt(i) == [n |-> i, d |-> 1]

RatAbs(q) == [n |-> Abs(q.n), d |-> q.d]

RatMulInt(q, k) == RatDiv(q.n * k, q.d)

Levels == {RatDiv(i, g) : i \in ITargets, g \in (-MaxGm .. MaxGm) \ {0}}

----------------------------------------------------------------------------
(* Program constants *)

\* abs(gm_eff) < 1e-15: 1e-15 A/V lies below one unit of gm_a_per_v, so for
\* the integer transconductances of the model the test is |gm_eff| < 1.
GmEpsilon == 1

\* threshold = 0.8 * input_range, as the fraction GuardNum / GuardDen
GuardNum == 4

GuardDen == 5

\* '.3g' keeps three significant digits
SigDigitsLimit == 1000

----------------------------------------------------------------------------
(* Effective gains *)

\* _gm_eff: -gm if bool(vi_invert) else gm
gm_eff == IF vi_invert THEN -gm_a_per_v ELSE gm_a_per_v

\* variant: one inversion flag serves both call sites
gv_eff_shared_flag == IF vi_invert THEN -preamp_gain ELSE preamp_gain

\* _gv_eff: -gv if bool(preamp_invert) else gv
gv_eff == IF preamp_invert THEN -preamp_gain ELSE preamp_gain

----------------------------------------------------------------------------
(* Overload guard *)

\* format(x, '.3g'): x rounded to three significant digits
RECURSIVE Sig3(_)
Sig3(x) == IF x < SigDigitsLimit THEN x ELSE 10 * Sig3((x + 5) \div 10)

\* variant: only None is recognised, R_est = 0 goes on to the prediction
r_est_is_none(r) == ~r.some

\* R_est in (None, 0)
r_est_missing(r) == (~r.some) \/ r.v = 0

\* abs(I_target) * float(R_est) * abs(self._gv_eff())
V_preamp_out_pred(I_target) == Abs(I_target) * R_est.v * Abs(gv_eff)

\* variant: >= in place of >
reaches_threshold(v_pred, rng) == GuardDen * v_pred >= GuardNum * rng

\* V_preamp_out_pred > 0.8 * input_range
exceeds_threshold(v_pred, rng) == GuardDen * v_pred > GuardNum * rng

\* variant: the message prints the threshold in place of the input range
advisory_with_threshold(v_pred, rng) ==
    [v_pred |-> Sig3(v_pred), second |-> Sig3((GuardNum * rng) \div GuardDen)]

\* the two figures of the message:
\* f"Predicted lock-in input {V_preamp_out_pred:.3g} V exceeds 80% of input
\*   range {input_range:.3g} V."
advisory_message(v_pred, rng) ==
    [v_pred |-> Sig3(v_pred), second |-> Sig3(rng)]

GuardSkipped == [raised |-> FALSE, range_read |-> FALSE, advisories |-> <<>>]

\* drivers engine: the read of input_range sits in try/except Exception: pass
drv_guard_lockin_overload(I_target) ==
    IF r_est_missing(R_est) THEN GuardSkipped
    ELSE LET v_pred == V_preamp_out_pred(I_target)
         IN  IF ~range_ok
             THEN [raised |-> FALSE, range_read |-> TRUE, advisories |-> <<>>]
             ELSE [raised |-> FALSE, range_read |-> TRUE,
                   advisories |->
                      IF exceeds_threshold(v_pred, input_range)
                      THEN <<advisory_message(v_pred, input_range)>>
                      ELSE <<>>]

\* virtual engine: float(self.input_range()) is not protected, a failing read
\* raises out of the guard
virt_guard_lockin_overload(I_target) ==
    IF r_est_missing(R_est) THEN GuardSkipped
    ELSE LET v_pred == V_preamp_out_pred(I_target)
         IN  IF ~range_ok
             THEN [raised |-> TRUE, range_read |-> TRUE, advisories |-> <<>>]
             ELSE [raised |-> FALSE, range_read |-> TRUE,
                   advisories |->
                      IF exceeds_threshold(v_pred, input_range)
                      THEN <<advisory_message(v_pred, input_range)>>
                      ELSE <<>>]

guard_lockin_overload(I_target) ==
    IF engine = "drivers" THEN drv_guard_lockin_overload(I_target)
    ELSE virt_guard_lockin_overload(I_target)

----------------------------------------------------------------------------
(* Current setpoint *)

\* variant: the output is enabled before the transconductance is tested
ZeroGmAfterEnable ==
    [result |-> "ValueError", guard_called |-> FALSE, range_read |-> FALSE,
     advisories |-> <<>>, writes |-> << <<"output_on", TRUE>> >>]

\* raise ValueError("gm_a_per_v is zero; cannot compute source voltage.")
ZeroGmOutcome ==
    [result |-> "ValueError", guard_called |-> FALSE, range_read |-> FALSE,
     advisories |-> <<>>, writes |-> <<>>]

\* variant: the magnitude is written with a minus sign
drv_level_negated(V_needed) == [n |-> -Abs(V_needed.n), d |-> V_needed.d]

\* variant: the sign is kept
drv_level_signed(V_needed) == V_needed

\* drivers engine: self.excitation_v_ac.set(abs(V_needed))
drv_level_to_write(V_needed) == RatAbs(V_needed)

\* variant: the quotient is added to the level the Source holds
virt_level_relative(V_needed) ==
    RatDiv(V_needed.n * excitation_v_ac.d + excitation_v_ac.n * V_needed.d,
           V_needed.d * excitation_v_ac.d)

\* variant: a peak-to-peak convention doubles the level written
virt_level_by_convention(V_needed) ==
    IF amplitude_convention = "pp" THEN RatMulInt(V_needed, 2) ELSE V_needed

\* virtual engine: self.excitation_v_ac.set(V_needed)
virt_level_to_write(V_needed) == V_needed

\* variant: the output is left off
output_on_not_written == FALSE

\* self.output_on.set(True)
output_on_written == TRUE

\* variant: the output is switched off while the level is written
source_writes_output_cycled(level) ==
    << <<"output_on", FALSE>>, <<"excitation_v_ac", level>>,
       <<"output_on", output_on_written>> >>

\* variant: the output is enabled before the level is written
source_writes_enable_first(level) ==
    << <<"output_on", output_on_written>>, <<"excitation_v_ac", level>> >>

source_writes(level) ==
    << <<"excitation_v_ac", level>>, <<"output_on", output_on_written>> >>

drv_set_I_target(I_target) ==
    IF Abs(gm_eff) < GmEpsilon THEN ZeroGmOutcome
    ELSE LET V_needed == RatDiv(I_target, gm_eff)
             g == drv_guard_lockin_overload(I_target)
         IN  [result |-> "ok", guard_called |-> TRUE,
              range_read |-> g.range_read, advisories |-> g.advisories,
              writes |-> source_writes(drv_level_to_write(V_needed))]

virt_set_I_target(I_target) ==
    IF gm_eff = 0 THEN ZeroGmOutcome
    ELSE LET V_needed == RatDiv(I_target, gm_eff)
             g == virt_guard_lockin_overload(I_target)
         IN  IF g.raised
             THEN [result |-> "DeviceError", guard_called |-> TRUE,
                   range_read |-> g.range_read, advisories |-> g.advisories,
                   writes |-> <<>>]
             ELSE [result |-> "ok", guard_called |-> TRUE,
                   range_read |-> g.range_read, advisories |-> g.advisories,
                   writes |-> source_writes(virt_level_to_write(V_needed))]

set_I_target(I_target) ==
    IF engine = "drivers" THEN drv_set_I_target(I_target)
    ELSE virt_set_I_target(I_target)

\* variant: the inversion of the converter is left out of the readback
get_I_cmd_unsigned == RatMulInt(excitation_v_ac, gm_a_per_v)

\* _get_I_cmd: self._gm_eff() * float(self.excitation_v_ac())
get_I_cmd == RatMulInt(excitation_v_ac, gm_eff)

----------------------------------------------------------------------------
(* The record of the last engine call *)

Zero == RatOfInt(0)

\* what a readback returned: None, or a complex number re + i im (a real
\* result has im = 0)
NoOut == [some |-> FALSE, re |-> Zero, im |-> Zero]

Complex(re, im) == [some |-> TRUE, re |-> re, im |-> im]

Real(x) == Complex(x, Zero)

NoCall ==
    [op |-> "none", arg |-> 0, result |-> "ok", guard_called |-> FALSE,
     range_read |-> FALSE, advisories |-> <<>>, writes |-> <<>>,
     value |-> Zero, out |-> NoOut]

\* the value a parameter holds after the writes of one call
AfterWrites(writes, name, old) ==
    LET idx == {i \in 1 .. Len(writes) : writes[i][1] = name}
    IN  IF idx = {} THEN old
        ELSE writes[CHOOSE i \in idx : \A j \in idx : j <= i][2]

----------------------------------------------------------------------------
(* State after construction.  The manual parameters take their              *)
(* initial_value (gm 1e-3, gain 100, invert False, R_est None); the device  *)
(* settings are whatever the instrument holds.                              *)

\* the mock nodes of tests/virtual: both frequencies 1000 Hz
FreqDefault ==
    /\ has_src_frequency = TRUE
    /\ src_frequency = 2
    /\ lockin_frequency = 2

\* the mock lock-in of tests/virtual: X = 1.0, Y = 0.0, R = 1.0
ReadDefault ==
    /\ has_XY = TRUE
    /\ has_R = TRUE
    /\ X = 1
    /\ Y = 0
    /\ R = 1

\* margin initial_value=3.0, amplitude_convention initial_value="rms"
AdvDefault ==
    /\ margin = 3
    /\ amplitude_convention = "rms"

\* no call is in progress
NoLocal ==
    [op |-> "none", arg |-> 0, gm_eff |-> 0, old_src |-> 0, old_lockin |-> 0,
     status |-> "none"]

ProcDefault ==
    /\ pc = <<>>
    /\ local = NoLocal
    /\ events = <<>>

\* Keithley2182A.__init__: self._trigger_sent = False; nothing written yet
K2182Default ==
    /\ trigger_sent = FALSE
    /\ wire = <<>>

Init ==
    /\ engine \in Engines
    /\ gm_a_per_v = 1
    /\ vi_invert = FALSE
    /\ excitation_v_ac = Zero
    /\ output_on \in BOOLEAN
    /\ preamp_gain = 1
    /\ preamp_invert = FALSE
    /\ R_est = None
    /\ input_range \in InputRanges
    /\ range_ok \in BOOLEAN
    /\ call = NoCall
    /\ FreqDefault
    /\ ReadDefault
    /\ AdvDefault
    /\ ProcDefault
    /\ K2182Default

----------------------------------------------------------------------------
(* Engine operations *)

\* I_set.set(I_target)
SetITarget(I_target) ==
    LET r == set_I_target(I_target)
    IN  /\ excitation_v_ac' =
               AfterWrites(r.writes, "excitation_v_ac", excitation_v_ac)
        /\ output_on' = AfterWrites(r.writes, "output_on", output_on)
        /\ call' = [op |-> "set_I_target", arg |-> I_target,
                    result |-> r.result, guard_called |-> r.guard_called,
                    range_read |-> r.range_read,
                    advisories |-> r.advisories, writes |-> r.writes,
                    value |-> Zero, out |-> NoOut]
        /\ UNCHANGED <<engine, gm_a_per_v, vi_invert, preamp_gain,
                       preamp_invert, R_est, input_range, range_ok>>
        /\ UNCHANGED auxVars

\* I_set.get() / I_cmd.get()
GetICmd ==
    /\ call' = [NoCall EXCEPT !.op = "get_I_cmd", !.value = get_I_cmd]
    /\ UNCHANGED nodeVars
    /\ UNCHANGED auxVars

\* a direct call of _guard_lockin_overload(I_target)
CheckOverload(I_target) ==
    LET g == guard_lockin_overload(I_target)
    IN  /\ call' = [NoCall EXCEPT !.op = "guard", !.arg = I_target,
                       !.result = IF g.raised THEN "DeviceError" ELSE "ok",
                       !.guard_called = TRUE,
                       !.range_read = g.range_read,
                       !.advisories = g.advisories]
        /\ UNCHANGED nodeVars
        /\ UNCHANGED auxVars

----------------------------------------------------------------------------
(* The users and devices around the engine *)

\* vi.gm_a_per_v.set(g), vals Numbers(min_value=0)
SetGm(g) ==
    /\ gm_a_per_v' = g
    /\ call' = NoCall
    /\ UNCHANGED <<engine, vi_invert, excitation_v_ac, output_on, preamp_gain,
                   preamp_invert, R_est, input_range, range_ok>>
    /\ UNCHANGED auxVars

\* vi.invert.set(b)
SetViInvert(b) ==
    /\ vi_invert' = b
    /\ call' = NoCall
    /\ UNCHANGED <<engine, gm_a_per_v, excitation_v_ac, output_on, preamp_gain,
                   preamp_invert, R_est, input_range, range_ok>>
    /\ UNCHANGED auxVars

\* preamp.gain_v_per_v.set(g), vals Numbers(min_value=0)
SetPreampGain(g) ==
    /\ preamp_gain' = g
    /\ call' = NoCall
    /\ UNCHANGED <<engine, gm_a_per_v, vi_invert, excitation_v_ac, output_on,
                   preamp_invert, R_est, input_range, range_ok>>
    /\ UNCHANGED auxVars

\* preamp.invert.set(b)
SetPreampInvert(b) ==
    /\ preamp_invert' = b
    /\ call' = NoCall
    /\ UNCHANGED <<engine, gm_a_per_v, vi_invert, excitation_v_ac, output_on,
                   preamp_gain, R_est, input_range, range_ok>>
    /\ UNCHANGED auxVars

\* R_est.set(r), vals Numbers(min_value=0)
SetREst(r) ==
    /\ R_est' = Some(r)
    /\ call' = NoCall
    /\ UNCHANGED <<engine, gm_a_per_v, vi_invert, excitation_v_ac, output_on,
                   preamp_gain, preamp_invert, input_range, range_ok>>
    /\ UNCHANGED auxVars

\* input_range.set(rng)
SetInputRange(rng) ==
    /\ input_range' = rng
    /\ call' = NoCall
    /\ UNCHANGED <<engine, gm_a_per_v, vi_invert, excitation_v_ac, output_on,
                   preamp_gain, preamp_invert, R_est, range_ok>>
    /\ UNCHANGED auxVars

\* output_on.set(b)
SetOutputOn(b) ==
    /\ output_on' = b
    /\ call' = NoCall
    /\ UNCHANGED <<engine, gm_a_per_v, vi_invert, excitation_v_ac,
                   preamp_gain, preamp_invert, R_est, input_range, range_ok>>
    /\ UNCHANGED auxVars

\* excitation_v_ac.set(v)
SetExcitation(v) ==
    /\ excitation_v_ac' = v
    /\ call' = NoCall
    /\ UNCHANGED <<engine, gm_a_per_v, vi_invert, output_on,
                   preamp_gain, preamp_invert, R_est, input_range, range_ok>>
    /\ UNCHANGED auxVars

\* the lock-in becomes unreachable, or reachable again: a read of
\* input_range raises while range_ok is false
DeviceAvailability(b) ==
    /\ range_ok' = b
    /\ call' = NoCall
    /\ UNCHANGED <<engine, gm_a_per_v, vi_invert, excitation_v_ac, output_on,
                   preamp_gain, preamp_invert, R_est, input_range>>
    /\ UNCHANGED auxVars

Next ==
    \/ \E I_target \in ITargets : SetITarget(I_target)
    \/ GetICmd
    \/ \E I_target \in ITargets : CheckOverload(I_target)
    \/ \E g \in 0 .. MaxGm : SetGm(g)
    \/ \E b \in BOOLEAN : SetViInvert(b)
    \/ \E g \in 0 .. MaxGain : SetPreampGain(g)
    \/ \E b \in BOOLEAN : SetPreampInvert(b)
    \/ \E r \in 0 .. MaxREst : SetREst(r)
    \/ \E rng \in InputRanges : SetInputRange(rng)
    \/ \E b \in BOOLEAN : SetOutputOn(b)
    \/ \E v \in Levels : SetExcitation(v)
    \/ \E b \in BOOLEAN : DeviceAvailability(b)

Spec == Init /\ [][Next]_vars

----------------------------------------------------------------------------
(* Properties *)

SetOk == call.op = "set_I_target" /\ call.result = "ok"

GuardRan == call.op \in {"set_I_target", "guard"} /\ call.guard_called

\* C1: a getCommandedCurrent() that directly follows a successful
\* setCurrentTarget(I_target) returns I_target, for every nonzero gm, every
\* invert value and every sign of I_target.
C1_RoundTrip ==
    [][(SetOk /\ call'.op = "get_I_cmd")
          => call'.value = RatOfInt(call.arg)]_vars

\* C2: with gm_a_per_v = 0 (either invert value) setCurrentTarget fails with
\* the zero-transconductance error, writes nothing, leaves the Source level
\* and output-enable as they were, and does not evaluate the guard.
C2_ZeroGmNoSideEffect ==
    [][(call'.op = "set_I_target" /\ gm_a_per_v = 0)
          => /\ call'.result = "ValueError"
             /\ call'.writes = <<>>
             /\ ~call'.guard_called
             /\ ~call'.range_read
             /\ call'.advisories = <<>>
             /\ excitation_v_ac' = excitation_v_ac
             /\ output_on' = output_on]_vars

C2_Witness ==
    /\ call.op = "set_I_target" /\ call.result = "ValueError"
    /\ call.arg = 2
    /\ vi_invert
    /\ ~output_on
    /\ excitation_v_ac.n # 0
    /\ R_est.some /\ R_est.v > 0 /\ preamp_gain > 0

C4_SignedQuotient ==
    SetOk => /\ call.writes[1][2] = RatDiv(call.arg, gm_eff)
             /\ excitation_v_ac = RatDiv(call.arg, gm_eff)

\* C5: every successful setCurrentTarget leaves the Source output enabled,
\* whatever the output-enable was before the call; gm = 1e-3 A/V, invert
\* false, I_target = 1e-6 A leaves the level at 1e-3 V and the output on.
C5_OutputEnabled ==
    [][(call'.op = "set_I_target" /\ call'.result = "ok")
          => /\ output_on'
             /\ ((gm_a_per_v = 1 /\ ~vi_invert /\ call'.arg = 2)
                    => excitation_v_ac' = RatOfInt(2))]_vars

C5_Witness ==
    /\ SetOk /\ call.arg = 2
    /\ gm_a_per_v = 1 /\ ~vi_invert
    /\ excitation_v_ac = RatOfInt(2)
    /\ output_on

\* C6: the guard never blocks a setpoint: with gm_eff # 0 every
\* setCurrentTarget performs the level write and the output-enable write,
\* with values that do not depend on the guard's outcome.
C6_GuardNeverBlocks ==
    (call.op = "set_I_target" /\ gm_eff # 0)
        => /\ call.result = "ok"
           /\ Len(call.writes) = 2
           /\ call.writes[1][1] = "excitation_v_ac"
           /\ RatAbs(call.writes[1][2]) = RatAbs(RatDiv(call.arg, gm_eff))
           /\ call.writes[2] = <<"output_on", TRUE>>

\* C7: with R_est set and nonzero and the input range readable, the guard
\* emits an advisory exactly when |I_target| * R_est * |gv_eff| is strictly
\* greater than 0.8 * inputRange (R_est = 1e4 Ohm, gain = 100, range = 1.0 V:
\* 1e-6 A predicts 1.0 V and warns, 5e-7 A predicts 0.5 V and does not).
C7_AdvisoryIffAboveThreshold ==
    (GuardRan /\ R_est.some /\ R_est.v # 0 /\ range_ok)
        => LET v == Abs(call.arg) * R_est.v * preamp_gain
           IN  /\ Len(call.advisories) \in {0, 1}
               /\ (Len(call.advisories) = 1) <=> (10 * v > 8 * input_range)
               /\ (R_est.v = 1 /\ preamp_gain = 1 /\ input_range = 2)
                     => /\ Abs(call.arg) = 2 => Len(call.advisories) = 1
                        /\ Abs(call.arg) = 1 => Len(call.advisories) = 0

\* the prediction sits exactly on the threshold: nothing is emitted
C7_Witness ==
    /\ GuardRan /\ R_est.some /\ R_est.v # 0 /\ range_ok
    /\ call.arg # 0
    /\ 10 * (Abs(call.arg) * R_est.v * preamp_gain) = 8 * input_range
    /\ call.advisories = <<>>

\* C8: with R_est None or 0 the guard does nothing: no advisory, and the
\* input range is not read.
C8_NoREstNoGuard ==
    (GuardRan /\ ((~R_est.some) \/ R_est.v = 0))
        => /\ call.advisories = <<>>
           /\ ~call.range_read
           /\ call.result = "ok"

C8_Witness ==
    /\ call.op = "guard" /\ call.guard_called
    /\ R_est.some /\ R_est.v = 0
    /\ call.arg = 2 /\ preamp_gain > 0
    /\ ~range_ok
    /\ ~call.range_read /\ call.result = "ok"

\* C9: a failing read of the input range never propagates: the guard
\* returns without an advisory and setCurrentTarget still performs both
\* Source writes.
C9_RangeFailureSwallowed ==
    (GuardRan /\ call.range_read /\ ~range_ok)
        => /\ call.result = "ok"
           /\ call.advisories = <<>>
           /\ (call.op = "set_I_target" => Len(call.writes) = 2)

\* C10 as stated: an advisory carries V_pred and the threshold
\* 0.8 * inputRange.
C10_AdvisoryCarriesThreshold ==
    \A i \in 1 .. Len(call.advisories) :
        /\ call.advisories[i].v_pred
              = Abs(call.arg) * R_est.v * preamp_gain
        /\ 10 * call.advisories[i].second = 8 * input_range

\* C10 amended: an advisory carries V_pred and the input range itself, not
\* the threshold (R_est = 1e4, gain = 100, range = 1.0 V, I_target = 1e-6 A:
\* the figures are 1.0 and 1.0).
C10_AdvisoryCarriesRange ==
    \A i \in 1 .. Len(call.advisories) :
        /\ call.advisories[i].v_pred
              = Abs(call.arg) * R_est.v * preamp_gain
        /\ call.advisories[i].second = input_range
        /\ (R_est.v = 1 /\ preamp_gain = 1 /\ input_range = 2
               /\ call.arg = 2)
              => call.advisories[i] = [v_pred |-> 2, second |-> 2]

C10_Witness ==
    /\ Len(call.advisories) = 1
    /\ R_est = Some(1) /\ preamp_gain = 1 /\ input_range = 2
    /\ call.arg = 2
    /\ call.advisories[1] = [v_pred |-> 2, second |-> 2]

----------------------------------------------------------------------------
(* Coupled reference frequency *)

MaxFreq == 4

\* frequencies written and held: 500 Hz .. 2000 Hz
Freqs == 1 .. MaxFreq

\* variant: the lock-in is written first
lockin_then_source(f) ==
    << <<"lockin_frequency", f>>, <<"src_frequency", f>> >>

\* self.src_v.frequency.set(f); self.lockin.frequency.set(f)
source_then_lockin(f) ==
    << <<"src_frequency", f>>, <<"lockin_frequency", f>> >>

\* drivers engine: self.src_v.frequency is dereferenced without a test, so a
\* Source without a frequency parameter raises before anything is written
drv_set_ref_freq(f) ==
    IF has_src_frequency
    THEN [result |-> "ok", writes |-> source_then_lockin(f)]
    ELSE [result |-> "AttributeError", writes |-> <<>>]

\* virtual engine: the Source write is skipped when the Source has no
\* frequency parameter
virt_set_ref_freq(f) ==
    IF has_src_frequency
    THEN [result |-> "ok", writes |-> source_then_lockin(f)]
    ELSE [result |-> "ok", writes |-> << <<"lockin_frequency", f>> >>]

set_ref_freq(f) ==
    IF engine = "drivers" THEN drv_set_ref_freq(f) ELSE virt_set_ref_freq(f)

\* variant: the Source is taken as the reference
get_ref_freq_from_source == src_frequency

\* _get_ref_freq: self.lockin.frequency()
get_ref_freq == lockin_frequency

\* the node values of the setpoint path at their initial_value
SetpointDefault ==
    /\ gm_a_per_v = 1
    /\ vi_invert = FALSE
    /\ excitation_v_ac = Zero
    /\ output_on = FALSE
    /\ preamp_gain = 1
    /\ preamp_invert = FALSE
    /\ R_est = None
    /\ input_range = 2
    /\ range_ok = TRUE
    /\ call = NoCall

\* reference_frequency.set(f)
SetReferenceFrequency(f) ==
    LET r == set_ref_freq(f)
    IN  /\ src_frequency' =
               AfterWrites(r.writes, "src_frequency", src_frequency)
        /\ lockin_frequency' =
               AfterWrites(r.writes, "lockin_frequency", lockin_frequency)
        /\ call' = [NoCall EXCEPT !.op = "set_ref_freq", !.arg = f,
                       !.result = r.result, !.writes = r.writes]
        /\ UNCHANGED <<nodeVars, has_src_frequency, readVars, advVars>>
        /\ UNCHANGED <<procVars, k2182Vars>>

\* variant: reading the reference frequency brings the Source to the
\* LockIn's frequency
GetReferenceFrequencySyncing ==
    /\ call' = [NoCall EXCEPT !.op = "get_ref_freq",
                   !.out = Real(RatOfInt(get_ref_freq))]
    /\ src_frequency' = lockin_frequency
    /\ UNCHANGED <<nodeVars, has_src_frequency, lockin_frequency, readVars,
                   advVars, procVars, k2182Vars>>

\* reference_frequency.get()
GetReferenceFrequency ==
    /\ call' = [NoCall EXCEPT !.op = "get_ref_freq",
                   !.out = Real(RatOfInt(get_ref_freq))]
    /\ UNCHANGED <<nodeVars, auxVars>>

\* src_v.frequency.set(f), written beside the engine
SetSourceFrequency(f) ==
    /\ has_src_frequency
    /\ src_frequency' = f
    /\ call' = NoCall
    /\ UNCHANGED <<nodeVars, has_src_frequency, lockin_frequency, readVars,
                   advVars>>
    /\ UNCHANGED <<procVars, k2182Vars>>

\* lockin.frequency.set(f), written beside the engine
SetLockinFrequency(f) ==
    /\ lockin_frequency' = f
    /\ call' = NoCall
    /\ UNCHANGED <<nodeVars, has_src_frequency, src_frequency, readVars,
                   advVars>>
    /\ UNCHANGED <<procVars, k2182Vars>>

\* a Source with or without a frequency parameter; the devices hold any
\* frequency
InitFreq ==
    /\ engine \in Engines
    /\ SetpointDefault
    /\ has_src_frequency \in BOOLEAN
    /\ src_frequency \in (IF has_src_frequency THEN Freqs ELSE {0})
    /\ lockin_frequency \in Freqs
    /\ ReadDefault
    /\ AdvDefault
    /\ ProcDefault
    /\ K2182Default

NextFreq ==
    \/ \E f \in Freqs : SetReferenceFrequency(f)
    \/ GetReferenceFrequency
    \/ \E f \in Freqs : SetSourceFrequency(f)
    \/ \E f \in Freqs : SetLockinFrequency(f)

SpecFreq == InitFreq /\ [][NextFreq]_vars

\* C11: setReferenceFrequency(f) succeeds; afterwards the LockIn frequency is
\* f, the Source frequency is f when the Source has a frequency parameter,
\* and only the LockIn is written when it has none
C11_FrequencyCoupled ==
    call.op = "set_ref_freq" =>
        /\ call.result = "ok"
        /\ lockin_frequency = call.arg
        /\ has_src_frequency => src_frequency = call.arg
        /\ ~has_src_frequency =>
               call.writes = << <<"lockin_frequency", call.arg>> >>

\* C12: getReferenceFrequency() returns the LockIn's frequency, whatever the
\* Source holds, and right after setReferenceFrequency(f) the LockIn
\* frequency it returns is f
C12_ReferenceIsLockin ==
    [][/\ call'.op = "get_ref_freq" =>
             /\ call'.out = Real(RatOfInt(lockin_frequency))
             /\ (call.op = "set_ref_freq" /\ call.result = "ok") =>
                    call'.out = Real(RatOfInt(call.arg))
      ]_vars

\* the two devices disagree and the read returns the LockIn's 1500 Hz
C12_Witness ==
    /\ call.op = "get_ref_freq"
    /\ has_src_frequency
    /\ src_frequency = 2
    /\ lockin_frequency = 3
    /\ call.out = Real(RatOfInt(3))

----------------------------------------------------------------------------
(* Derived readbacks: sample voltage and measured current *)

MaxXY == 4

\* abs(gv_eff) < 1e-15 holds of a gain in units of 100 V/V exactly when it
\* is below one unit
GvEpsilon == 1

\* preamp gains set while reading back: 0, 100, 200 V/V
ReadGains == 0 .. MaxGain + 1

\* the square root of a perfect square
ISqrt(n) == CHOOSE r \in 0 .. n : r * r = n

\* X, Y readings; abs() of a complex number is modelled exactly, so the
\* readings are the pairs whose modulus is an integer
Readings ==
    {p \in (-MaxXY .. MaxXY) \X (-MaxXY .. MaxXY) :
        \E r \in 0 .. 2 * MaxXY : r * r = p[1] * p[1] + p[2] * p[2]}

\* abs(z) of z = re + i im
RatModulus(re, im) ==
    RatDiv(ISqrt(re.n * re.n * im.d * im.d + im.n * im.n * re.d * re.d),
           re.d * im.d)

\* variant: the quotient is taken by the gain's magnitude
complex_div_by_magnitude(x, y, g) ==
    IF g = 0 THEN [result |-> "ZeroDivisionError", out |-> NoOut]
    ELSE [result |-> "ok",
          out |-> Complex(RatDiv(x, Abs(g)), RatDiv(y, Abs(g)))]

\* complex(x, y) / g, which raises ZeroDivisionError at g = 0
complex_div(x, y, g) ==
    IF g = 0 THEN [result |-> "ZeroDivisionError", out |-> NoOut]
    ELSE [result |-> "ok", out |-> Complex(RatDiv(x, g), RatDiv(y, g))]

\* variant: the gain is not tested before the division
gv_zero_untested(g) == FALSE

\* drivers engine: abs(gv_eff) < 1e-15
drv_gv_is_zero(g) == Abs(g) < GvEpsilon

\* virtual engine: gv_eff == 0
virt_gv_is_zero(g) == g = 0

\* variant: no sample voltage is reported at gain zero
zero_gain_absent == NoOut

\* return complex(0, 0)
zero_gain_sample == Complex(Zero, Zero)

\* drivers engine: None unless the chain has both X and Y
drv_get_V_sample_ac_meas ==
    IF has_XY
    THEN IF drv_gv_is_zero(gv_eff)
         THEN [result |-> "ok", out |-> zero_gain_sample]
         ELSE complex_div(X, Y, gv_eff)
    ELSE [result |-> "ok", out |-> NoOut]

\* virtual engine: X and Y are read, then the gain is tested
virt_get_V_sample_ac_meas ==
    IF virt_gv_is_zero(gv_eff)
    THEN [result |-> "ok", out |-> zero_gain_sample]
    ELSE complex_div(X, Y, gv_eff)

get_V_sample_ac_meas ==
    IF engine = "drivers" THEN drv_get_V_sample_ac_meas
    ELSE virt_get_V_sample_ac_meas

\* variant: an unmeasurable current reads as zero
absent_as_zero == Real(Zero)

\* return None
absent_value == NoOut

\* variant: the in-phase part stands for the magnitude
sample_real_part(V) == V.re

\* abs(V_sample)
sample_magnitude(V) == RatModulus(V.re, V.im)

\* abs(V_sample) / float(R_est)
current_of(V) ==
    LET m == sample_magnitude(V)
    IN  Real(RatDiv(m.n, m.d * R_est.v))

\* drivers engine: None without R_est and None without a sample voltage
drv_get_I_meas ==
    IF r_est_missing(R_est) THEN [result |-> "ok", out |-> absent_value]
    ELSE LET s == drv_get_V_sample_ac_meas
         IN  IF s.result # "ok" THEN s
             ELSE IF ~s.out.some THEN [result |-> "ok", out |-> NoOut]
             ELSE [result |-> "ok", out |-> current_of(s.out)]

\* virtual engine: None without R_est
virt_get_I_meas ==
    IF r_est_missing(R_est) THEN [result |-> "ok", out |-> absent_value]
    ELSE LET s == virt_get_V_sample_ac_meas
         IN  IF s.result # "ok" THEN s
             ELSE [result |-> "ok", out |-> current_of(s.out)]

get_I_meas ==
    IF engine = "drivers" THEN drv_get_I_meas ELSE virt_get_I_meas

\* V_sample_ac_meas.get()
GetVSample ==
    LET s == get_V_sample_ac_meas
    IN  /\ call' = [NoCall EXCEPT !.op = "get_V_sample",
                       !.result = s.result, !.out = s.out]
        /\ UNCHANGED <<nodeVars, auxVars>>

\* I_meas.get()
GetIMeas ==
    LET s == get_I_meas
    IN  /\ call' = [NoCall EXCEPT !.op = "get_I_meas",
                       !.result = s.result, !.out = s.out]
        /\ UNCHANGED <<nodeVars, auxVars>>

\* the demodulator delivers a new X, Y pair
Demodulate(x, y) ==
    /\ has_XY
    /\ X' = x
    /\ Y' = y
    /\ call' = NoCall
    /\ UNCHANGED <<nodeVars, freqVars, has_XY, has_R, R, advVars>>
    /\ UNCHANGED <<procVars, k2182Vars>>

\* the drivers engine takes a lock-in with or without X and Y; the virtual
\* engine's constructor requires them
InitRead ==
    /\ engine \in Engines
    /\ SetpointDefault
    /\ FreqDefault
    /\ has_XY \in (IF engine = "drivers" THEN BOOLEAN ELSE {TRUE})
    /\ has_R = TRUE
    /\ X = (IF has_XY THEN 1 ELSE 0)
    /\ Y = 0
    /\ R = 1
    /\ AdvDefault
    /\ ProcDefault
    /\ K2182Default

NextRead ==
    \/ GetVSample
    \/ GetIMeas
    \/ \E p \in Readings : Demodulate(p[1], p[2])
    \/ \E g \in ReadGains : SetPreampGain(g)
    \/ \E b \in BOOLEAN : SetPreampInvert(b)
    \/ \E r \in 0 .. MaxREst : SetREst(r)

SpecRead == InitRead /\ [][NextRead]_vars

\* a lock-in that delivers X and Y was read back and nothing changed since
SampleRead == call.op = "get_V_sample" /\ has_XY

\* C13: with an effective preamp gain of zero sampleVoltage() returns
\* 0 + 0i for every X, Y and invert value, and raises nothing
C13_ZeroGainZeroSample ==
    (SampleRead /\ preamp_gain = 0) =>
        /\ call.result = "ok"
        /\ call.out = [some |-> TRUE, re |-> Zero, im |-> Zero]

\* a nonzero reading at gain zero with the invert flag set
C13_Witness ==
    /\ SampleRead
    /\ preamp_gain = 0
    /\ preamp_invert
    /\ X = 3
    /\ Y = 4
    /\ call.out = Complex(Zero, Zero)

\* C14: with a nonzero effective preamp gain sampleVoltage() is
\* X / gv_eff + i Y / gv_eff of the live values, so the invert flag negates
\* both parts
C14_SampleIsQuotient ==
    (SampleRead /\ preamp_gain # 0) =>
        LET g == IF preamp_invert THEN -preamp_gain ELSE preamp_gain
        IN  /\ call.result = "ok"
            /\ call.out.some
            /\ call.out.re = RatDiv(X, g)
            /\ call.out.im = RatDiv(Y, g)

\* X = 1.0, Y = 0.0, gain 100, not inverted: 0.01 + 0i
C14_Witness ==
    /\ SampleRead
    /\ X = 1
    /\ Y = 0
    /\ preamp_gain = 1
    /\ ~preamp_invert
    /\ call.out = Complex(RatOfInt(1), Zero)

\* C15: measuredCurrent() returns None, neither zero nor an error, whenever
\* R_est is None or 0
C15_NoREstNoCurrent ==
    (call.op = "get_I_meas" /\ (R_est = None \/ R_est = Some(0))) =>
        /\ call.result = "ok"
        /\ ~call.out.some

\* R_est = 0 with a nonzero reading and a nonzero gain
C15_Witness ==
    /\ call.op = "get_I_meas"
    /\ R_est = Some(0)
    /\ X # 0
    /\ preamp_gain # 0
    /\ call.out = NoOut

\* C16: with R_est set and nonzero, measuredCurrent() is
\* |sampleVoltage()| / R_est, that is |X + iY| / (gain * R_est), and 0 at
\* gain zero: never negative and the same for both values of the invert flag
C16_CurrentIsModulusOverREst ==
    (/\ call.op = "get_I_meas"
     /\ has_XY
     /\ R_est.some
     /\ R_est.v # 0) =>
        /\ call.result = "ok"
        /\ call.out.some
        /\ call.out.re.n >= 0
        /\ call.out.re =
               (IF preamp_gain = 0 THEN [n |-> 0, d |-> 1]
                ELSE RatDiv(ISqrt(X * X + Y * Y), preamp_gain * R_est.v))
        /\ call.out.im = Zero

\* X = 1.0, Y = 0.0, gain 100, R_est 10 kOhm, inverted: 1e-6 A
C16_Witness ==
    /\ call.op = "get_I_meas"
    /\ X = 1
    /\ Y = 0
    /\ preamp_gain = 1
    /\ preamp_invert
    /\ R_est = Some(1)
    /\ call.out = Real(RatOfInt(1))

----------------------------------------------------------------------------
(* The setpoint path alone: gains, invert flags and the Source level change *)
(* around set and get of the current                                        *)

InitGain ==
    /\ engine \in Engines
    /\ SetpointDefault
    /\ FreqDefault
    /\ ReadDefault
    /\ AdvDefault
    /\ ProcDefault
    /\ K2182Default

NextGain ==
    \/ \E I_target \in ITargets : SetITarget(I_target)
    \/ GetICmd
    \/ \E g \in 0 .. MaxGm : SetGm(g)
    \/ \E b \in BOOLEAN : SetViInvert(b)
    \/ \E g \in 0 .. MaxGain : SetPreampGain(g)
    \/ \E b \in BOOLEAN : SetPreampInvert(b)
    \/ \E v \in Levels : SetExcitation(v)

SpecGain == InitGain /\ [][NextGain]_vars

\* C17: a gain that is not inverted is its magnitude, an inverted gain is
\* its negation, and each invert flag acts on its own gain only: toggling
\* vi_invert negates gm_eff and leaves gv_eff, toggling preamp_invert negates
\* gv_eff and leaves gm_eff
C17_IndependentInversion ==
    [][/\ ~vi_invert' => gm_eff' = gm_a_per_v'
       /\ ~preamp_invert' => gv_eff' = preamp_gain'
       /\ (vi_invert' # vi_invert) =>
              (gm_eff' = -gm_eff /\ gv_eff' = gv_eff)
       /\ (preamp_invert' # preamp_invert) =>
              (gv_eff' = -gv_eff /\ gm_eff' = gm_eff)
      ]_vars

\* only the converter is inverted: gm_eff = -1e-3 A/V, gv_eff = +100 V/V
C17_Witness ==
    /\ vi_invert
    /\ ~preamp_invert
    /\ gm_a_per_v = 1
    /\ preamp_gain = 1
    /\ gm_eff = -1
    /\ gv_eff = 1

----------------------------------------------------------------------------
(* Advisory settings: margin, recommended sensitivity, amplitude convention *)

MaxMargin == 3

MaxR == 2

\* vals=Enum("rms", "amp", "pp")
Conventions == {"rms", "amp", "pp"}

\* variant: the resistance estimate stands for the magnitude readout
sensitivity_from_estimate == R_est.v

\* float(self.R())
sensitivity_reading == R

\* drivers engine: None unless the chain has R
drv_get_recommended_sensitivity ==
    IF has_R THEN Real(RatOfInt(margin * sensitivity_reading)) ELSE NoOut

\* virtual engine: margin * R_val
virt_get_recommended_sensitivity ==
    Real(RatOfInt(margin * sensitivity_reading))

get_recommended_sensitivity ==
    IF engine = "drivers" THEN drv_get_recommended_sensitivity
    ELSE virt_get_recommended_sensitivity

\* recommended_sensitivity.get()
GetRecommendedSensitivity ==
    /\ call' = [NoCall EXCEPT !.op = "get_recommended_sensitivity",
                   !.out = get_recommended_sensitivity]
    /\ UNCHANGED <<nodeVars, auxVars>>

\* margin.set(m), vals Numbers(min_value=1)
SetMargin(m) ==
    /\ margin' = m
    /\ call' = NoCall
    /\ UNCHANGED <<nodeVars, freqVars, readVars, amplitude_convention>>
    /\ UNCHANGED <<procVars, k2182Vars>>

\* amplitude_convention.set(c)
SetAmplitudeConvention(c) ==
    /\ amplitude_convention' = c
    /\ call' = NoCall
    /\ UNCHANGED <<nodeVars, freqVars, readVars, margin>>
    /\ UNCHANGED <<procVars, k2182Vars>>

\* the demodulator delivers a new magnitude R
DemodulateR(r) ==
    /\ has_R
    /\ R' = r
    /\ call' = NoCall
    /\ UNCHANGED <<nodeVars, freqVars, has_XY, has_R, X, Y, advVars>>
    /\ UNCHANGED <<procVars, k2182Vars>>

\* the drivers engine takes a lock-in with or without R; the virtual
\* engine's constructor requires it
InitAdv ==
    /\ engine \in Engines
    /\ SetpointDefault
    /\ FreqDefault
    /\ has_XY = TRUE
    /\ X = 1
    /\ Y = 0
    /\ has_R \in (IF engine = "drivers" THEN BOOLEAN ELSE {TRUE})
    /\ R = (IF has_R THEN 1 ELSE 0)
    /\ AdvDefault
    /\ ProcDefault
    /\ K2182Default

NextAdv ==
    \/ GetRecommendedSensitivity
    \/ \E m \in 1 .. MaxMargin : SetMargin(m)
    \/ \E r \in 0 .. MaxR : DemodulateR(r)
    \/ \E r \in 0 .. MaxREst : SetREst(r)

SpecAdv == InitAdv /\ [][NextAdv]_vars

\* the convention is changed between setpoints, with and without an
\* estimate of the resistance and with either polarity of the converter
NextConv ==
    \/ \E c \in Conventions : SetAmplitudeConvention(c)
    \/ \E I_target \in ITargets : SetITarget(I_target)
    \/ \E b \in BOOLEAN : SetViInvert(b)
    \/ \E r \in 0 .. MaxREst : SetREst(r)

SpecConv == InitGain /\ [][NextConv]_vars

\* C18: recommendedSensitivity() is margin times the lock-in's R reading of
\* the moment it is called, and a change of R_est does not change it
C18_SensitivityIsMarginTimesR ==
    [][/\ (call'.op = "get_recommended_sensitivity" /\ has_R) =>
              call'.out = Real(RatOfInt(margin * R))
       /\ (R_est' # R_est) =>
              get_recommended_sensitivity' = get_recommended_sensitivity
      ]_vars

\* margin 3 and R = 1.0 V give 3.0 V while R_est is 2e4 Ohm
C18_Witness ==
    /\ call.op = "get_recommended_sensitivity"
    /\ has_R
    /\ margin = 3
    /\ R = 1
    /\ R_est = Some(2)
    /\ call.out = Real(RatOfInt(3))

\* C20: a change of amplitude_convention alone changes neither what
\* setCurrentTarget would write and advise for any target, nor the guard's
\* decision, nor the values of getCommandedCurrent, sampleVoltage,
\* measuredCurrent and recommendedSensitivity
C20_ConventionUnused ==
    [][(amplitude_convention' # amplitude_convention) =>
           /\ \A I_target \in ITargets :
                  /\ set_I_target(I_target)' = set_I_target(I_target)
                  /\ guard_lockin_overload(I_target)' =
                         guard_lockin_overload(I_target)
           /\ get_I_cmd' = get_I_cmd
           /\ get_V_sample_ac_meas' = get_V_sample_ac_meas
           /\ get_I_meas' = get_I_meas
           /\ get_recommended_sensitivity' = get_recommended_sensitivity
      ]_vars

\* the convention is peak-to-peak, and a set of 1e-6 A wrote 1e-3 V and
\* raised the advisory as under rms
C20_Witness ==
    /\ amplitude_convention = "pp"
    /\ call.op = "set_I_target"
    /\ call.arg = 2
    /\ R_est = Some(1)
    /\ Len(call.advisories) = 1
    /\ excitation_v_ac = RatOfInt(2)

----------------------------------------------------------------------------
(* Control path and advisory values *)

\* C21: R_est takes no part in control: a change of R_est alone changes
\* neither the writes setCurrentTarget makes for any target nor the value of
\* getCommandedCurrent
C21_REstNotControl ==
    [][(R_est' # R_est) =>
           /\ \A I_target \in ITargets :
                  set_I_target(I_target)'.writes =
                      set_I_target(I_target).writes
           /\ get_I_cmd' = get_I_cmd
      ]_vars

----------------------------------------------------------------------------
(* One call statement by statement.  A call in progress holds in pc the     *)
(* statements it has still to run; other writers act between two            *)
(* statements.                                                              *)

level_to_write(V_needed) ==
    IF engine = "drivers" THEN drv_level_to_write(V_needed)
    ELSE virt_level_to_write(V_needed)

\* the zero test that opens _set_I_target
gm_is_zero ==
    IF engine = "drivers" THEN Abs(gm_eff) < GmEpsilon ELSE gm_eff = 0

\* V_needed is computed first; then the guard, the level write and the
\* output enable follow
set_I_target_program(I_target) ==
    << <<"guard", I_target>> >>
        \o source_writes(level_to_write(RatDiv(I_target, gm_eff)))

\* variant: the quotient is taken from the gain of the moment of the write
written_level_live(stmt) ==
    IF gm_eff = 0 THEN Zero
    ELSE level_to_write(RatDiv(local.arg, gm_eff))

\* self.excitation_v_ac.set(...) writes the value computed before the guard
written_level(stmt) == stmt[2]

\* I_set.set(I_target) is entered: zero test and quotient
BeginSetITarget(I_target) ==
    /\ pc = <<>>
    /\ IF gm_is_zero
       THEN /\ pc' = <<>>
            /\ local' = [NoLocal EXCEPT !.op = "set_I_target",
                            !.arg = I_target, !.status = "ValueError"]
       ELSE /\ pc' = set_I_target_program(I_target)
            /\ local' = [NoLocal EXCEPT !.op = "set_I_target",
                            !.arg = I_target, !.gm_eff = gm_eff,
                            !.status = "running"]
    /\ events' = <<>>
    /\ call' = NoCall
    /\ UNCHANGED <<nodeVars, freqVars, readVars, advVars, k2182Vars>>

\* self._guard_lockin_overload(I_target)
ExecGuard ==
    /\ pc # <<>>
    /\ Head(pc)[1] = "guard"
    /\ LET g == guard_lockin_overload(Head(pc)[2])
       IN  /\ events' = events \o <<"guard">>
                  \o [i \in 1 .. Len(g.advisories) |-> "advisory"]
           /\ IF g.raised
              THEN /\ pc' = <<>>
                   /\ local' = [local EXCEPT !.status = "DeviceError"]
              ELSE /\ pc' = Tail(pc)
                   /\ local' = local
    /\ call' = NoCall
    /\ UNCHANGED <<nodeVars, freqVars, readVars, advVars, k2182Vars>>

\* the next parameter write of the call
ExecWrite ==
    /\ pc # <<>>
    /\ Head(pc)[1] # "guard"
    /\ LET stmt == Head(pc)
       IN  /\ excitation_v_ac' =
                  (IF stmt[1] = "excitation_v_ac" THEN written_level(stmt)
                   ELSE excitation_v_ac)
           /\ output_on' =
                  (IF stmt[1] = "output_on" THEN stmt[2] ELSE output_on)
           /\ src_frequency' =
                  (IF stmt[1] = "src_frequency" THEN stmt[2]
                   ELSE src_frequency)
           /\ lockin_frequency' =
                  (IF stmt[1] = "lockin_frequency" THEN stmt[2]
                   ELSE lockin_frequency)
           /\ events' = Append(events, stmt[1])
    /\ pc' = Tail(pc)
    /\ local' = (IF Tail(pc) = <<>> THEN [local EXCEPT !.status = "ok"]
                 ELSE local)
    /\ call' = NoCall
    /\ UNCHANGED <<engine, gm_a_per_v, vi_invert, preamp_gain, preamp_invert,
                   R_est, input_range, range_ok, has_src_frequency, readVars,
                   advVars, k2182Vars>>

\* the level write is the next statement: the guard has returned
BeforeLevelWrite == pc # <<>> /\ Head(pc)[1] = "excitation_v_ac"

\* another writer sets the converter's gain or polarity, or the amplifier's
\* gain, after the guard and before the level write
RaceGm(g) == BeforeLevelWrite /\ SetGm(g)

RaceViInvert(b) == BeforeLevelWrite /\ SetViInvert(b)

RacePreampGain(g) == BeforeLevelWrite /\ SetPreampGain(g)

InitSetSteps ==
    /\ engine \in Engines
    /\ SetpointDefault
    /\ FreqDefault
    /\ ReadDefault
    /\ AdvDefault
    /\ ProcDefault
    /\ K2182Default

NextSetSteps ==
    \/ \E I_target \in ITargets : BeginSetITarget(I_target)
    \/ ExecGuard
    \/ ExecWrite
    \/ \E g \in 0 .. MaxGm : RaceGm(g)
    \/ \E b \in BOOLEAN : RaceViInvert(b)
    \/ \E g \in 0 .. MaxGain : RacePreampGain(g)
    \/ \E r \in 0 .. MaxREst : SetREst(r)

SpecSetSteps == InitSetSteps /\ [][NextSetSteps]_vars

\* C22: within a setCurrentTarget call the guard and its advisory come
\* before the level write and the level write before the output enable; the
\* output is never enabled before the level is written; a successful call
\* did all three
C22_GuardLevelEnable ==
    local.op = "set_I_target" =>
        /\ \A i \in 1 .. Len(events) :
               /\ events[i] = "excitation_v_ac" =>
                      \E j \in 1 .. i - 1 : events[j] = "guard"
               /\ events[i] = "advisory" =>
                      \A j \in 1 .. i - 1 : events[j] # "excitation_v_ac"
               /\ events[i] = "output_on" =>
                      \E j \in 1 .. i - 1 : events[j] = "excitation_v_ac"
        /\ local.status = "ok" =>
               /\ events[1] = "guard"
               /\ events[Len(events) - 1] = "excitation_v_ac"
               /\ events[Len(events)] = "output_on"

\* a successful call that advised
C22_Witness ==
    /\ local.op = "set_I_target"
    /\ local.status = "ok"
    /\ events = <<"guard", "advisory", "excitation_v_ac", "output_on">>

\* C26: a write to the converter's gain or polarity or to the amplifier's
\* gain that falls between the guard and the level write leaves the call as
\* it was; the level then written is the quotient taken from the
\* transconductance read when the call began, no error is raised, and the
\* output enable follows
C26_BenignGainRace ==
    [][/\ (/\ BeforeLevelWrite
           /\ <<gm_a_per_v, vi_invert, preamp_gain>>' #
                  <<gm_a_per_v, vi_invert, preamp_gain>>) =>
              (pc' = pc /\ local' = local /\ events' = events)
       /\ (BeforeLevelWrite /\ Len(events') > Len(events)) =>
              /\ excitation_v_ac' =
                     (LET q == RatDiv(local.arg, local.gm_eff)
                      IN  IF engine = "drivers"
                          THEN [n |-> Abs(q.n), d |-> q.d] ELSE q)
              /\ local'.status = "running"
              /\ Len(pc') = 1
       /\ (local.op = "set_I_target" /\ Len(pc) = 1 /\ pc' # pc) =>
              (pc' = <<>> /\ local'.status = "ok" /\ output_on')
      ]_vars

\* gm was set to zero after the guard of a call for 1e-6 A begun at
\* gm = 1e-3 A/V; the level written is 1e-3 V
C26_Witness ==
    /\ local.op = "set_I_target"
    /\ local.arg = 2
    /\ local.gm_eff = 1
    /\ gm_a_per_v = 0
    /\ events = <<"guard", "excitation_v_ac">>
    /\ excitation_v_ac = RatOfInt(2)

----------------------------------------------------------------------------
(* The coupled frequency write statement by statement *)

\* reference_frequency.set(f) is entered
BeginSetReferenceFrequency(f) ==
    LET r == set_ref_freq(f)
    IN  /\ pc = <<>>
        /\ pc' = r.writes
        /\ local' = [NoLocal EXCEPT !.op = "set_ref_freq", !.arg = f,
                        !.old_src = src_frequency,
                        !.old_lockin = lockin_frequency,
                        !.status = IF r.result = "ok" THEN "running"
                                   ELSE r.result]
        /\ events' = <<>>
        /\ call' = NoCall
        /\ UNCHANGED <<nodeVars, freqVars, readVars, advVars, k2182Vars>>

\* the call is cut short between two statements (a device write raises, or
\* the user interrupts); nothing is undone
Interrupt ==
    /\ pc # <<>>
    /\ pc' = <<>>
    /\ local' = [local EXCEPT !.status = "interrupted"]
    /\ call' = NoCall
    /\ UNCHANGED <<nodeVars, freqVars, readVars, advVars, events, k2182Vars>>

NextFreqSteps ==
    \/ \E f \in Freqs : BeginSetReferenceFrequency(f)
    \/ ExecWrite
    \/ Interrupt

SpecFreqSteps == InitFreq /\ [][NextFreqSteps]_vars

\* C23: the Source frequency is written before the LockIn frequency and
\* the pair is not atomic: an interrupted setReferenceFrequency(f) leaves the
\* LockIn at its old frequency and the Source either at its old frequency or
\* at f, with nothing rolled back; the LockIn is never at f with the Source
\* still at the old value
C23_SourceBeforeLockin ==
    /\ (local.op = "set_ref_freq" /\ has_src_frequency) =>
           \A i \in 1 .. Len(events) :
               events[i] = "lockin_frequency" =>
                   \E j \in 1 .. i - 1 : events[j] = "src_frequency"
    /\ (local.op = "set_ref_freq" /\ local.status = "interrupted") =>
           /\ lockin_frequency = local.old_lockin
           /\ has_src_frequency =>
                  \/ events = <<>> /\ src_frequency = local.old_src
                  \/ events = <<"src_frequency">> /\ src_frequency = local.arg

\* interrupted after the Source write: Source at the new 2000 Hz, LockIn
\* still at 1000 Hz
C23_Witness ==
    /\ local.op = "set_ref_freq"
    /\ local.status = "interrupted"
    /\ local.arg = 4
    /\ local.old_src = 2
    /\ src_frequency = 4
    /\ lockin_frequency = 2

----------------------------------------------------------------------------
(* Effects of the setpoint on the Source *)

\* C24: a successful setCurrentTarget makes exactly two writes, the Source
\* level and the Source output enable, and changes nothing else: the
\* frequencies, the gains and invert flags, the lock-in settings and
\* readouts, R_est, margin and the amplitude convention stay as they were
C24_TwoSourceWritesOnly ==
    [][(call'.op = "set_I_target" /\ call'.result = "ok") =>
           /\ Len(call'.writes) = 2
           /\ {call'.writes[i][1] : i \in 1 .. Len(call'.writes)} =
                  {"excitation_v_ac", "output_on"}
           /\ UNCHANGED <<gm_a_per_v, vi_invert, preamp_gain, preamp_invert,
                          R_est, input_range, range_ok>>
           /\ UNCHANGED <<has_src_frequency, src_frequency, lockin_frequency>>
           /\ UNCHANGED <<has_XY, has_R, X, Y, R>>
           /\ UNCHANGED <<margin, amplitude_convention>>
      ]_vars

\* a set of -1e-6 A on an inverting converter with the preamp inverted too
C24_Witness ==
    /\ call.op = "set_I_target"
    /\ call.result = "ok"
    /\ call.arg = -2
    /\ vi_invert
    /\ preamp_invert
    /\ Len(call.writes) = 2
    /\ output_on

C28_LastWriteWins ==
    [][/\ (call'.op = "set_I_target" /\ call'.result = "ok") =>
              LET g == IF vi_invert' THEN -gm_a_per_v' ELSE gm_a_per_v'
                  q == RatDiv(call'.arg, g)
              IN  /\ excitation_v_ac' =
                         (IF engine = "drivers"
                          THEN [n |-> Abs(q.n), d |-> q.d] ELSE q)
                  /\ output_on'
       /\ (/\ call.op = "set_I_target"
           /\ call.result = "ok"
           /\ call'.op = "set_I_target"
           /\ call'.arg = call.arg) =>
              (/\ call'.result = "ok"
               /\ excitation_v_ac' = excitation_v_ac
               /\ output_on' = output_on)
      ]_vars

\* -1e-6 A was set over an earlier level and the Source holds -1e-3 V
C28_Witness ==
    /\ call.op = "set_I_target"
    /\ call.result = "ok"
    /\ engine = "virtual"
    /\ call.arg = -2
    /\ ~vi_invert
    /\ excitation_v_ac = RatOfInt(-2)
    /\ output_on

----------------------------------------------------------------------------
(* The readbacks among changing node values *)

NextPure ==
    \/ GetICmd
    \/ GetReferenceFrequency
    \/ GetVSample
    \/ GetIMeas
    \/ GetRecommendedSensitivity
    \/ \E f \in Freqs : SetSourceFrequency(f)
    \/ \E g \in ReadGains : SetPreampGain(g)
    \/ \E r \in 0 .. MaxREst : SetREst(r)
    \/ \E v \in Levels : SetExcitation(v)
    \/ \E r \in 0 .. MaxR : DemodulateR(r)

SpecPure == InitGain /\ [][NextPure]_vars

\* the five readbacks
Readbacks ==
    {"get_I_cmd", "get_ref_freq", "get_V_sample", "get_I_meas",
     "get_recommended_sensitivity"}

\* C25: getCommandedCurrent, getReferenceFrequency, sampleVoltage,
\* measuredCurrent and recommendedSensitivity change no node value and no
\* advisory value, and the same readback called again with nothing changed
\* in between returns the same result
C25_ReadbacksPure ==
    [][(call'.op \in Readbacks) =>
           /\ UNCHANGED <<engine, gm_a_per_v, vi_invert, excitation_v_ac,
                          output_on, preamp_gain, preamp_invert, input_range,
                          range_ok>>
           /\ UNCHANGED <<has_src_frequency, src_frequency, lockin_frequency>>
           /\ UNCHANGED <<has_XY, has_R, X, Y, R>>
           /\ UNCHANGED <<R_est, margin, amplitude_convention>>
           /\ (call.op = call'.op) => (call' = call)
      ]_vars

\* the measured current was read while the Source and the LockIn disagree
\* on the frequency
C25_Witness ==
    /\ call.op = "get_I_meas"
    /\ call.out.some
    /\ src_frequency # lockin_frequency
    /\ excitation_v_ac # Zero

----------------------------------------------------------------------------
(* Measured current at gain zero *)

\* C29: with R_est set and nonzero and an effective preamp gain of zero,
\* measuredCurrent() returns the number 0, not None, for every X and Y
C29_ZeroGainCurrentIsZero ==
    (/\ call.op = "get_I_meas"
     /\ has_XY
     /\ R_est.some
     /\ R_est.v # 0
     /\ preamp_gain = 0) =>
        /\ call.result = "ok"
        /\ call.out = [some |-> TRUE, re |-> [n |-> 0, d |-> 1],
                       im |-> [n |-> 0, d |-> 1]]

\* X = 3 V, Y = 4 V, R_est = 2e4 Ohm, gain 0: the current reads 0
C29_Witness ==
    /\ call.op = "get_I_meas"
    /\ X = 3
    /\ Y = 4
    /\ R_est = Some(2)
    /\ preamp_gain = 0
    /\ call.out = Real(Zero)

----------------------------------------------------------------------------
(* Keithley 2182A: software trigger *)

MaxWire == 5

\* variant: abort leaves the flag as it is
flag_after_abort_kept == trigger_sent

\* abort_measurement: self._trigger_sent = False
flag_after_abort == FALSE

\* what trigger() writes: INIT first unless the flag is set, then *TRG
trigger_writes ==
    (IF ~trigger_sent THEN <<"INIT">> ELSE <<>>) \o <<"*TRG">>

\* initiate_measurement()
InitiateMeasurement ==
    /\ Len(wire) < MaxWire
    /\ wire' = Append(wire, "INIT")
    /\ trigger_sent' = TRUE
    /\ call' = [NoCall EXCEPT !.op = "initiate_measurement"]
    /\ UNCHANGED <<nodeVars, freqVars, readVars, advVars, procVars>>

\* abort_measurement()
AbortMeasurement ==
    /\ Len(wire) < MaxWire
    /\ wire' = Append(wire, "ABOR")
    /\ trigger_sent' = flag_after_abort
    /\ call' = [NoCall EXCEPT !.op = "abort_measurement"]
    /\ UNCHANGED <<nodeVars, freqVars, readVars, advVars, procVars>>

\* trigger(): initiate_measurement() sets the flag when it is called
Trigger ==
    /\ Len(wire) + Len(trigger_writes) <= MaxWire
    /\ wire' = wire \o trigger_writes
    /\ trigger_sent' = TRUE
    /\ call' = [NoCall EXCEPT !.op = "trigger"]
    /\ UNCHANGED <<nodeVars, freqVars, readVars, advVars, procVars>>

\* reset()
Reset ==
    /\ Len(wire) < MaxWire
    /\ wire' = Append(wire, "*RST")
    /\ trigger_sent' = FALSE
    /\ call' = [NoCall EXCEPT !.op = "reset"]
    /\ UNCHANGED <<nodeVars, freqVars, readVars, advVars, procVars>>

\* the constructor resets the instrument when asked to
InitK2182 ==
    /\ engine = "drivers"
    /\ SetpointDefault
    /\ FreqDefault
    /\ ReadDefault
    /\ AdvDefault
    /\ ProcDefault
    /\ trigger_sent = FALSE
    /\ wire \in {<<>>, <<"*RST">>}

NextK2182 ==
    \/ InitiateMeasurement
    \/ AbortMeasurement
    \/ Trigger
    \/ Reset

SpecK2182 == InitK2182 /\ [][NextK2182]_vars

\* an initiation is pending after the commands w: the last of INIT, ABOR
\* and *RST written is an INIT
InitiationPending(w) ==
    \E j \in 1 .. Len(w) :
        /\ w[j] = "INIT"
        /\ \A k \in j + 1 .. Len(w) : w[k] \notin {"ABOR", "*RST"}

\* C30: every *TRG written follows an INIT with no ABOR and no *RST between
\* them; trigger() writes INIT and then *TRG when no initiation is pending
\* (at the start, after abort_measurement, after reset) and *TRG alone
\* otherwise
C30_TriggerAfterInit ==
    [][/\ \A i \in 1 .. Len(wire') :
              wire'[i] = "*TRG" => InitiationPending(SubSeq(wire', 1, i - 1))
       /\ (call'.op = "trigger") =>
              wire' = (IF InitiationPending(wire)
                       THEN wire \o <<"*TRG">>
                       ELSE wire \o <<"INIT", "*TRG">>)
      ]_vars

\* a trigger after an abort initiates again; the next one does not
C30_Witness ==
    /\ call.op = "trigger"
    /\ wire = <<"INIT", "ABOR", "INIT", "*TRG", "*TRG">>

====
